---- MODULE Spec2Model ----
(***************************************************************************)
(* Model of scripts/automation_proposal.py: the report parsers, the        *)
(* bottleneck analyzer, the configuration tuner and the iteration          *)
(* controller (main) of the OpenLane flow automation framework.            *)
(***************************************************************************)
EXTENDS Integers, Sequences, FiniteSets, TLC

VARIABLES
    pc,            \* position of main(): "while", "stages", "check", "summary", "done"
    iteration,     \* main: iteration
    stage_i,       \* main: index of the for loop over stages (1..6)
    failed_stage,  \* main: failed_stage ("None" or a stage name)
    results,       \* executor.results
    suggestions,   \* main: suggestions of the last analysed stage
    config,        \* tuner.config (in memory)
    store,         \* config.json on disk
    reported,      \* the two numbers of the flow summary
    iter_of,       \* history: iteration in which results[k] was produced
    tuner_log,     \* history: iteration of every adjust_for_routing_congestion call
    snapshot,      \* history: <<config, store>> when the current iteration began
    prev_config,   \* history: tuner.config before the last tuner call
    start,         \* history: <<config, store>> when main() began
    report,        \* a report file: [exists, path, content]
    parsed,        \* what the last parser call returned
    hv             \* the last has_violations call: <<metrics, result>>

vars == <<pc, iteration, stage_i, failed_stage, results, suggestions, config,
          store, reported, iter_of, tuner_log, snapshot, prev_config,
          start, report, parsed, hv>>

ctlVars == <<pc, iteration, stage_i, failed_stage, results, suggestions,
             reported, iter_of, snapshot, start>>
tunerVars == <<config, store, tuner_log, prev_config>>
parseVars == <<report, parsed, hv>>

(***************************************************************************)
(* Binary floating point.  A Python float (IEEE-754 double) of magnitude   *)
(* below 2 is <<s, hi, lo>>: sign s, magnitude (hi * 2^30 + lo) * 2^-60.   *)
(* Every double in [2^-8, 2) and every exact difference of two of them is  *)
(* a whole number of these units.                                          *)
(***************************************************************************)
Limb == 2^30

\* The spacing of the doubles around hi * 2^-30, in units of 2^-60
\* (53 significant bits): 2^(e - 22) for hi in [2^e, 2^(e+1)), e >= 22.
Ulp(hi) ==
    IF hi < 2^23 THEN 1 ELSE IF hi < 2^24 THEN 2 ELSE IF hi < 2^25 THEN 4
    ELSE IF hi < 2^26 THEN 8 ELSE IF hi < 2^27 THEN 16 ELSE IF hi < 2^28 THEN 32
    ELSE IF hi < 2^29 THEN 64 ELSE IF hi < 2^30 THEN 128 ELSE 256

\* Round a magnitude to the nearest double, ties to even; sticky says that
\* the exact value lies strictly above hi, lo.
RoundNearestEven(s, hi, lo, sticky) ==
    LET U  == Ulp(hi)
        q  == lo \div U
        r  == lo % U
        up == \/ 2 * r > U
              \/ 2 * r = U /\ (sticky \/ q % 2 = 1)
        l2 == IF up THEN (q + 1) * U ELSE q * U
    IN  IF l2 = Limb THEN <<s, hi + 1, 0>> ELSE <<s, hi, l2>>

\* The double a decimal literal with two decimals denotes, h = 100 * literal
\* (float("0.55"), json.load of 0.55): h / 100 by long division, rounded.
Dec(h) ==
    LET q0 == h \div 25
        n1 == (h % 25) * 2^14
        n2 == (n1 % 25) * 2^14
        n3 == (n2 % 25) * 2^15
        n4 == (n3 % 25) * 2^15
    IN  RoundNearestEven(1, q0 * 2^28 + (n1 \div 25) * 2^14 + (n2 \div 25),
                         (n3 \div 25) * 2^15 + (n4 \div 25), n4 % 25 # 0)

FIsZero(a) == a[2] = 0 /\ a[3] = 0
MagLess(a, b) == a[2] < b[2] \/ (a[2] = b[2] /\ a[3] < b[3])
\* a < b on floats
FLess(a, b) ==
    IF FIsZero(a) /\ FIsZero(b) THEN FALSE
    ELSE IF a[1] # b[1] THEN a[1] < b[1]
    ELSE IF a[1] = 1 THEN MagLess(a, b) ELSE MagLess(b, a)
FLeq(a, b) == ~FLess(b, a)

\* |a| - |b| for |a| >= |b|, exact
MagSub(s, a, b) ==
    IF a[3] >= b[3] THEN RoundNearestEven(s, a[2] - b[2], a[3] - b[3], FALSE)
    ELSE RoundNearestEven(s, a[2] - b[2] - 1, a[3] + Limb - b[3], FALSE)

\* a - b on non-negative floats, rounded to nearest
FSub(a, b) ==
    IF MagLess(a, b) THEN MagSub(-1, b, a) ELSE MagSub(1, a, b)

\* max(a, b) of Python: the first argument unless the second is greater
PyMax(a, b) == IF FLess(a, b) THEN b ELSE a

(***************************************************************************)
(* Numbers of any magnitude from 1 up.  A Python int n is [int |-> n].  A  *)
(* Python float is [sig |-> <<l1, l2, l3, l4>>, exp |-> e]: the 53-bit     *)
(* significand M = l1 + l2 * 2^14 + l3 * 2^28 + l4 * 2^42 with             *)
(* 2^52 <= M < 2^53, and the value M * 2^(e - 52).                         *)
(***************************************************************************)
Base == 2^14

PyInt(n) == [int |-> n]
PyFloat(sig, e) == [sig |-> sig, exp |-> e]
IsPyInt(v) == "int" \in DOMAIN v

\* float(n) for an int 1 <= n < 2^11: exact
FromInt(n) ==
    LET e == CHOOSE k \in 0..10 : 2^k <= n /\ n < 2^(k + 1)
    IN  PyFloat(<<0, 0, 0, n * 2^(10 - e)>>, e)

\* the operand of a float operation: an int is converted to float
ToFloat(v) == IF IsPyInt(v) THEN FromInt(v.int) ELSE v

\* a float <<s, hi, lo>> of magnitude in [1, 2), in the form above
Widen(a) ==
    PyFloat(<<(a[3] \div 2^8) % Base,
              (a[3] \div 2^22) + (a[2] % 2^6) * 2^8,
              (a[2] \div 2^6) % Base,
              a[2] \div 2^20>>, 0)

\* a * b on floats: the exact product of the significands, limb by limb,
\* rounded to 53 bits, nearest, ties to even
FMul(a, b) ==
    LET x  == a.sig
        y  == b.sig
        t1 == x[1] * y[1]
        t2 == x[1] * y[2] + x[2] * y[1] + (t1 \div Base)
        t3 == x[1] * y[3] + x[2] * y[2] + x[3] * y[1] + (t2 \div Base)
        t4 == x[1] * y[4] + x[2] * y[3] + x[3] * y[2] + x[4] * y[1]
                + (t3 \div Base)
        t5 == x[2] * y[4] + x[3] * y[3] + x[4] * y[2] + (t4 \div Base)
        t6 == x[3] * y[4] + x[4] * y[3] + (t5 \div Base)
        t7 == x[4] * y[4] + (t6 \div Base)
        d4 == t4 % Base
        d5 == t5 % Base
        d6 == t6 % Base
        d7 == t7 % Base
        d8 == t7 \div Base
        \* the product has 106 bits when d8 >= 2^7, else 105
        k  == IF d8 >= 2^7 THEN 11 ELSE 10
        q1 == (d4 \div 2^k) + (d5 % 2^k) * 2^(14 - k)
        q2 == (d5 \div 2^k) + (d6 % 2^k) * 2^(14 - k)
        q3 == (d6 \div 2^k) + (d7 % 2^k) * 2^(14 - k)
        q4 == (d7 \div 2^k) + d8 * 2^(14 - k)
        low    == d4 % 2^k
        sticky == t1 % Base # 0 \/ t2 % Base # 0 \/ t3 % Base # 0
        up == \/ low > 2^(k - 1)
              \/ low = 2^(k - 1) /\ (sticky \/ q1 % 2 = 1)
        c1 == q1 + (IF up THEN 1 ELSE 0)
        c2 == q2 + (c1 \div Base)
        c3 == q3 + (c2 \div Base)
        c4 == q4 + (c3 \div Base)
        e  == a.exp + b.exp + (IF k = 11 THEN 1 ELSE 0)
    IN  IF c4 = 2^11 THEN PyFloat(<<0, 0, 0, 2^10>>, e + 1)
        ELSE PyFloat(<<c1 % Base, c2 % Base, c3 % Base, c4>>, e)


(***************************************************************************)
(* Bounds of the model.                                                    *)
(***************************************************************************)
\* starting PL_TARGET_DENSITY values of the tuner runs: 0.00 .. MaxDensity/100
MaxDensity == 99
\* starting FP_CORE_UTIL values of the tuner runs: 0 .. MaxUtil
MaxUtil == 60
\* adjust_for_routing_congestion calls in a tuner run
MaxCalls == 3
\* adjust_for_timing_violation is called in a tuner run while
\* CLOCK_PERIOD is below 2^(MaxPeriodExp + 1)
MaxPeriodExp == 3
\* lines of a report file
MaxLines == 3
\* slack values of a timing report: -MaxSlack .. MaxSlack
MaxSlack == 2

(***************************************************************************)
(* Configuration: a map from parameter name to value; a key may be absent. *)
(***************************************************************************)
\* dict.get(key, default)
Get(m, k, default) == IF k \in DOMAIN m THEN m[k] ELSE default
\* m[key] = value
Put(m, k, v) == [x \in (DOMAIN m) \cup {k} |-> IF x = k THEN v ELSE m[x]]

\* config.json is the set of members <<name, value>> of one JSON object.
\* ConfigParameterTuner._load_config: the map the file holds
load_config(file) ==
    [k \in {m[1] : m \in file} |-> (CHOOSE m \in file : m[1] = k)[2]]

\* ConfigParameterTuner._save_config: the file rewritten from the whole map
save_config(cfg) == {<<k, cfg[k]>> : k \in DOMAIN cfg}

\* the float literals of adjust_for_routing_congestion
density_default == Dec(55)
density_floor == Dec(40)
density_step == Dec(10)
rt_adjustment == Dec(20)

\* max(0.40, current_density - 0.10)
new_density_nofloor(current_density) == FSub(current_density, density_step)
new_density_floor50(current_density) ==
    PyMax(Dec(50), FSub(current_density, density_step))
new_density(current_density) ==
    PyMax(density_floor, FSub(current_density, density_step))

\* max(35, current_util - 10)
new_util(current_util) ==
    IF current_util - 10 > 35 THEN current_util - 10 ELSE 35

\* ConfigParameterTuner.adjust_for_routing_congestion: the map after the call
adjusted(cfg) ==
    LET current_density == Get(cfg, "PL_TARGET_DENSITY", density_default)
        current_util    == Get(cfg, "FP_CORE_UTIL", 50)
        c1 == Put(cfg, "PL_TARGET_DENSITY", new_density(current_density))
        c2 == Put(c1, "FP_CORE_UTIL", new_util(current_util))
    IN  Put(c2, "GLB_RT_ADJUSTMENT", rt_adjustment)

\* the float literals of adjust_for_timing_violation
period_default == FromInt(10)
relaxation == Widen(Dec(120))

\* current_period * 1.2
new_period(current_period) == FMul(ToFloat(current_period), relaxation)

\* ConfigParameterTuner.adjust_for_timing_violation: the map after the call
timing_adjusted(cfg) ==
    LET current_period == Get(cfg, "CLOCK_PERIOD", period_default)
        c1 == Put(cfg, "CLOCK_PERIOD", new_period(current_period))
    IN  Put(c1, "SYNTH_STRATEGY", "DELAY 0")

\* A call of tuner.adjust_for_timing_violation(wns); wns is not read
adjust_for_timing_violation(wns) ==
    /\ prev_config' = config
    /\ config' = timing_adjusted(config)
    /\ store' = save_config(timing_adjusted(config))
    /\ tuner_log' = tuner_log

\* A call of tuner.adjust_for_routing_congestion() made in iteration it
adjust_for_routing_congestion(it) ==
    /\ prev_config' = config
    /\ config' = adjusted(config)
    /\ store' = save_config(adjusted(config))
    /\ tuner_log' = Append(tuner_log, it)


(***************************************************************************)
(* Data structures.  An Optional[...] field is a sequence of length 0      *)
(* (None) or 1.  A text is the sequence of its characters, each a code     *)
(* point.                                                                  *)
(***************************************************************************)
\* stages of main(), in the order of the list
stages == <<"synthesis", "floorplan", "placement", "cts", "routing", "signoff">>

max_iterations == 3

TimingMetrics(wns, tns, whs, ths, cpd, period) ==
    [wns |-> wns, tns |-> tns, whs |-> whs, ths |-> ths,
     critical_path_delay |-> cpd, clock_period |-> period]

AreaMetrics(cells, area, core, die, util) ==
    [total_cells |-> cells, total_area |-> area, core_area |-> core,
     die_area |-> die, utilization |-> util]

RoutingMetrics(drc, antenna, wire, via, congestion) ==
    [drc_violations |-> drc, antenna_violations |-> antenna,
     wire_length |-> wire, via_count |-> via, congestion_score |-> congestion]

StageResult(stage, success, timing, area, routing, errors) ==
    [stage |-> stage, success |-> success, duration |-> 10, timing |-> timing,
     area |-> area, routing |-> routing, errors |-> errors, warnings |-> <<>>]

\* TimingMetrics.has_violations
has_violations(t) == t.wns < 0 \/ t.whs < 0

(***************************************************************************)
(* Bottleneck analyzer.  A suggestion is its heading followed by the       *)
(* numbers formatted into it.                                              *)
(***************************************************************************)
\* A character is its Unicode code point.  c is in the run <<lo, hi, step>>
InRun(c, r) == r[1] <= c /\ c <= r[2] /\ (c - r[1]) % r[3] = 0

\* str.lower, one character to one character: the runs <<lo, hi, step, d>> of
\* the characters whose small letter is d code points further
LowerTable ==
  { <<65, 90, 1, 32>>, <<192, 214, 1, 32>>, <<216, 222, 1, 32>>,
    <<256, 302, 2, 1>>, <<306, 310, 2, 1>>, <<313, 327, 2, 1>>,
    <<330, 374, 2, 1>>, <<376, 376, 1, -121>>, <<377, 381, 2, 1>>,
    <<385, 385, 1, 210>>, <<386, 388, 2, 1>>, <<390, 390, 1, 206>>,
    <<391, 391, 1, 1>>, <<393, 394, 1, 205>>, <<395, 395, 1, 1>>,
    <<398, 398, 1, 79>>, <<399, 399, 1, 202>>, <<400, 400, 1, 203>>,
    <<401, 401, 1, 1>>, <<403, 403, 1, 205>>, <<404, 404, 1, 207>>,
    <<406, 406, 1, 211>>, <<407, 407, 1, 209>>, <<408, 408, 1, 1>>,
    <<412, 412, 1, 211>>, <<413, 413, 1, 213>>, <<415, 415, 1, 214>>,
    <<416, 420, 2, 1>>, <<422, 422, 1, 218>>, <<423, 423, 1, 1>>,
    <<425, 425, 1, 218>>, <<428, 428, 1, 1>>, <<430, 430, 1, 218>>,
    <<431, 431, 1, 1>>, <<433, 434, 1, 217>>, <<435, 437, 2, 1>>,
    <<439, 439, 1, 219>>, <<440, 440, 1, 1>>, <<444, 444, 1, 1>>,
    <<452, 452, 1, 2>>, <<453, 453, 1, 1>>, <<455, 455, 1, 2>>,
    <<456, 456, 1, 1>>, <<458, 458, 1, 2>>, <<459, 475, 2, 1>>,
    <<478, 494, 2, 1>>, <<497, 497, 1, 2>>, <<498, 500, 2, 1>>,
    <<502, 502, 1, -97>>, <<503, 503, 1, -56>>, <<504, 542, 2, 1>>,
    <<544, 544, 1, -130>>, <<546, 562, 2, 1>>, <<570, 570, 1, 10795>>,
    <<571, 571, 1, 1>>, <<573, 573, 1, -163>>, <<574, 574, 1, 10792>>,
    <<577, 577, 1, 1>>, <<579, 579, 1, -195>>, <<580, 580, 1, 69>>,
    <<581, 581, 1, 71>>, <<582, 590, 2, 1>>, <<880, 882, 2, 1>>,
    <<886, 886, 1, 1>>, <<895, 895, 1, 116>>, <<902, 902, 1, 38>>,
    <<904, 906, 1, 37>>, <<908, 908, 1, 64>>, <<910, 911, 1, 63>>,
    <<913, 929, 1, 32>>, <<931, 939, 1, 32>>, <<975, 975, 1, 8>>,
    <<984, 1006, 2, 1>>, <<1012, 1012, 1, -60>>, <<1015, 1015, 1, 1>>,
    <<1017, 1017, 1, -7>>, <<1018, 1018, 1, 1>>, <<1021, 1023, 1, -130>>,
    <<1024, 1039, 1, 80>>, <<1040, 1071, 1, 32>>, <<1120, 1152, 2, 1>>,
    <<1162, 1214, 2, 1>>, <<1216, 1216, 1, 15>>, <<1217, 1229, 2, 1>>,
    <<1232, 1326, 2, 1>>, <<1329, 1366, 1, 48>>, <<4256, 4293, 1, 7264>>,
    <<4295, 4295, 1, 7264>>, <<4301, 4301, 1, 7264>>,
    <<5024, 5103, 1, 38864>>, <<5104, 5109, 1, 8>>, <<7312, 7354, 1, -3008>>,
    <<7357, 7359, 1, -3008>>, <<7680, 7828, 2, 1>>, <<7838, 7838, 1, -7615>>,
    <<7840, 7934, 2, 1>>, <<7944, 7951, 1, -8>>, <<7960, 7965, 1, -8>>,
    <<7976, 7983, 1, -8>>, <<7992, 7999, 1, -8>>, <<8008, 8013, 1, -8>>,
    <<8025, 8031, 2, -8>>, <<8040, 8047, 1, -8>>, <<8072, 8079, 1, -8>>,
    <<8088, 8095, 1, -8>>, <<8104, 8111, 1, -8>>, <<8120, 8121, 1, -8>>,
    <<8122, 8123, 1, -74>>, <<8124, 8124, 1, -9>>, <<8136, 8139, 1, -86>>,
    <<8140, 8140, 1, -9>>, <<8152, 8153, 1, -8>>, <<8154, 8155, 1, -100>>,
    <<8168, 8169, 1, -8>>, <<8170, 8171, 1, -112>>, <<8172, 8172, 1, -7>>,
    <<8184, 8185, 1, -128>>, <<8186, 8187, 1, -126>>, <<8188, 8188, 1, -9>>,
    <<8486, 8486, 1, -7517>>, <<8490, 8490, 1, -8383>>,
    <<8491, 8491, 1, -8262>>, <<8498, 8498, 1, 28>>, <<8544, 8559, 1, 16>>,
    <<8579, 8579, 1, 1>>, <<9398, 9423, 1, 26>>, <<11264, 11311, 1, 48>>,
    <<11360, 11360, 1, 1>>, <<11362, 11362, 1, -10743>>,
    <<11363, 11363, 1, -3814>>, <<11364, 11364, 1, -10727>>,
    <<11367, 11371, 2, 1>>, <<11373, 11373, 1, -10780>>,
    <<11374, 11374, 1, -10749>>, <<11375, 11375, 1, -10783>>,
    <<11376, 11376, 1, -10782>>, <<11378, 11378, 1, 1>>,
    <<11381, 11381, 1, 1>>, <<11390, 11391, 1, -10815>>,
    <<11392, 11490, 2, 1>>, <<11499, 11501, 2, 1>>, <<11506, 11506, 1, 1>>,
    <<42560, 42604, 2, 1>>, <<42624, 42650, 2, 1>>, <<42786, 42798, 2, 1>>,
    <<42802, 42862, 2, 1>>, <<42873, 42875, 2, 1>>,
    <<42877, 42877, 1, -35332>>, <<42878, 42886, 2, 1>>,
    <<42891, 42891, 1, 1>>, <<42893, 42893, 1, -42280>>,
    <<42896, 42898, 2, 1>>, <<42902, 42920, 2, 1>>,
    <<42922, 42922, 1, -42308>>, <<42923, 42923, 1, -42319>>,
    <<42924, 42924, 1, -42315>>, <<42925, 42925, 1, -42305>>,
    <<42926, 42926, 1, -42308>>, <<42928, 42928, 1, -42258>>,
    <<42929, 42929, 1, -42282>>, <<42930, 42930, 1, -42261>>,
    <<42931, 42931, 1, 928>>, <<42932, 42946, 2, 1>>,
    <<42948, 42948, 1, -48>>, <<42949, 42949, 1, -42307>>,
    <<42950, 42950, 1, -35384>>, <<42951, 42953, 2, 1>>,
    <<42960, 42960, 1, 1>>, <<42966, 42968, 2, 1>>, <<42997, 42997, 1, 1>>,
    <<65313, 65338, 1, 32>>, <<66560, 66599, 1, 40>>,
    <<66736, 66771, 1, 40>>, <<66928, 66938, 1, 39>>,
    <<66940, 66954, 1, 39>>, <<66956, 66962, 1, 39>>,
    <<66964, 66965, 1, 39>>, <<68736, 68786, 1, 64>>,
    <<71840, 71871, 1, 32>>, <<93760, 93791, 1, 32>>,
    <<125184, 125217, 1, 34>> }

\* the characters str.lower skips when it looks around a capital sigma
CaseIgnorableTable ==
  { <<39, 39, 1>>, <<46, 46, 1>>, <<58, 58, 1>>, <<94, 96, 2>>,
    <<168, 168, 1>>, <<173, 175, 2>>, <<180, 180, 1>>, <<183, 184, 1>>,
    <<688, 879, 1>>, <<884, 885, 1>>, <<890, 890, 1>>, <<900, 901, 1>>,
    <<903, 903, 1>>, <<1155, 1161, 1>>, <<1369, 1369, 1>>, <<1375, 1375, 1>>,
    <<1425, 1469, 1>>, <<1471, 1473, 2>>, <<1474, 1476, 2>>,
    <<1477, 1479, 2>>, <<1524, 1524, 1>>, <<1536, 1541, 1>>,
    <<1552, 1562, 1>>, <<1564, 1564, 1>>, <<1600, 1600, 1>>,
    <<1611, 1631, 1>>, <<1648, 1648, 1>>, <<1750, 1757, 1>>,
    <<1759, 1768, 1>>, <<1770, 1773, 1>>, <<1807, 1809, 2>>,
    <<1840, 1866, 1>>, <<1958, 1968, 1>>, <<2027, 2037, 1>>,
    <<2042, 2042, 1>>, <<2045, 2045, 1>>, <<2070, 2093, 1>>,
    <<2137, 2139, 1>>, <<2184, 2184, 1>>, <<2192, 2193, 1>>,
    <<2200, 2207, 1>>, <<2249, 2306, 1>>, <<2362, 2364, 2>>,
    <<2369, 2376, 1>>, <<2381, 2381, 1>>, <<2385, 2391, 1>>,
    <<2402, 2403, 1>>, <<2417, 2417, 1>>, <<2433, 2433, 1>>,
    <<2492, 2492, 1>>, <<2497, 2500, 1>>, <<2509, 2509, 1>>,
    <<2530, 2531, 1>>, <<2558, 2558, 1>>, <<2561, 2562, 1>>,
    <<2620, 2620, 1>>, <<2625, 2626, 1>>, <<2631, 2632, 1>>,
    <<2635, 2637, 1>>, <<2641, 2641, 1>>, <<2672, 2673, 1>>,
    <<2677, 2677, 1>>, <<2689, 2690, 1>>, <<2748, 2748, 1>>,
    <<2753, 2757, 1>>, <<2759, 2760, 1>>, <<2765, 2765, 1>>,
    <<2786, 2787, 1>>, <<2810, 2815, 1>>, <<2817, 2817, 1>>,
    <<2876, 2876, 1>>, <<2879, 2881, 2>>, <<2882, 2884, 1>>,
    <<2893, 2893, 1>>, <<2901, 2902, 1>>, <<2914, 2915, 1>>,
    <<2946, 2946, 1>>, <<3008, 3008, 1>>, <<3021, 3021, 1>>,
    <<3072, 3072, 1>>, <<3076, 3076, 1>>, <<3132, 3134, 2>>,
    <<3135, 3136, 1>>, <<3142, 3144, 1>>, <<3146, 3149, 1>>,
    <<3157, 3158, 1>>, <<3170, 3171, 1>>, <<3201, 3201, 1>>,
    <<3260, 3260, 1>>, <<3263, 3263, 1>>, <<3270, 3270, 1>>,
    <<3276, 3277, 1>>, <<3298, 3299, 1>>, <<3328, 3329, 1>>,
    <<3387, 3388, 1>>, <<3393, 3396, 1>>, <<3405, 3405, 1>>,
    <<3426, 3427, 1>>, <<3457, 3457, 1>>, <<3530, 3530, 1>>,
    <<3538, 3540, 1>>, <<3542, 3542, 1>>, <<3633, 3633, 1>>,
    <<3636, 3642, 1>>, <<3654, 3662, 1>>, <<3761, 3761, 1>>,
    <<3764, 3772, 1>>, <<3782, 3784, 2>>, <<3785, 3789, 1>>,
    <<3864, 3865, 1>>, <<3893, 3897, 2>>, <<3953, 3966, 1>>,
    <<3968, 3972, 1>>, <<3974, 3975, 1>>, <<3981, 3991, 1>>,
    <<3993, 4028, 1>>, <<4038, 4038, 1>>, <<4141, 4144, 1>>,
    <<4146, 4151, 1>>, <<4153, 4154, 1>>, <<4157, 4158, 1>>,
    <<4184, 4185, 1>>, <<4190, 4192, 1>>, <<4209, 4212, 1>>,
    <<4226, 4226, 1>>, <<4229, 4230, 1>>, <<4237, 4237, 1>>,
    <<4253, 4253, 1>>, <<4348, 4348, 1>>, <<4957, 4959, 1>>,
    <<5906, 5908, 1>>, <<5938, 5939, 1>>, <<5970, 5971, 1>>,
    <<6002, 6003, 1>>, <<6068, 6069, 1>>, <<6071, 6077, 1>>,
    <<6086, 6086, 1>>, <<6089, 6099, 1>>, <<6103, 6103, 1>>,
    <<6109, 6109, 1>>, <<6155, 6159, 1>>, <<6211, 6211, 1>>,
    <<6277, 6278, 1>>, <<6313, 6313, 1>>, <<6432, 6434, 1>>,
    <<6439, 6440, 1>>, <<6450, 6450, 1>>, <<6457, 6459, 1>>,
    <<6679, 6680, 1>>, <<6683, 6683, 1>>, <<6742, 6744, 2>>,
    <<6745, 6750, 1>>, <<6752, 6754, 2>>, <<6757, 6764, 1>>,
    <<6771, 6780, 1>>, <<6783, 6783, 1>>, <<6823, 6823, 1>>,
    <<6832, 6862, 1>>, <<6912, 6915, 1>>, <<6964, 6966, 2>>,
    <<6967, 6970, 1>>, <<6972, 6972, 1>>, <<6978, 6978, 1>>,
    <<7019, 7027, 1>>, <<7040, 7041, 1>>, <<7074, 7077, 1>>,
    <<7080, 7081, 1>>, <<7083, 7085, 1>>, <<7142, 7144, 2>>,
    <<7145, 7145, 1>>, <<7149, 7151, 2>>, <<7152, 7153, 1>>,
    <<7212, 7219, 1>>, <<7222, 7223, 1>>, <<7288, 7293, 1>>,
    <<7376, 7378, 1>>, <<7380, 7392, 1>>, <<7394, 7400, 1>>,
    <<7405, 7405, 1>>, <<7412, 7412, 1>>, <<7416, 7417, 1>>,
    <<7468, 7530, 1>>, <<7544, 7544, 1>>, <<7579, 7679, 1>>,
    <<8125, 8127, 2>>, <<8128, 8129, 1>>, <<8141, 8143, 1>>,
    <<8157, 8159, 1>>, <<8173, 8175, 1>>, <<8189, 8190, 1>>,
    <<8203, 8207, 1>>, <<8216, 8217, 1>>, <<8228, 8228, 1>>,
    <<8231, 8231, 1>>, <<8234, 8238, 1>>, <<8288, 8292, 1>>,
    <<8294, 8303, 1>>, <<8305, 8305, 1>>, <<8319, 8319, 1>>,
    <<8336, 8348, 1>>, <<8400, 8432, 1>>, <<11388, 11389, 1>>,
    <<11503, 11505, 1>>, <<11631, 11631, 1>>, <<11647, 11647, 1>>,
    <<11744, 11775, 1>>, <<11823, 11823, 1>>, <<12293, 12293, 1>>,
    <<12330, 12333, 1>>, <<12337, 12341, 1>>, <<12347, 12347, 1>>,
    <<12441, 12446, 1>>, <<12540, 12542, 1>>, <<40981, 40981, 1>>,
    <<42232, 42237, 1>>, <<42508, 42508, 1>>, <<42607, 42610, 1>>,
    <<42612, 42621, 1>>, <<42623, 42623, 1>>, <<42652, 42655, 1>>,
    <<42736, 42737, 1>>, <<42752, 42785, 1>>, <<42864, 42864, 1>>,
    <<42888, 42890, 1>>, <<42994, 42996, 1>>, <<43000, 43001, 1>>,
    <<43010, 43010, 1>>, <<43014, 43014, 1>>, <<43019, 43019, 1>>,
    <<43045, 43046, 1>>, <<43052, 43052, 1>>, <<43204, 43205, 1>>,
    <<43232, 43249, 1>>, <<43263, 43263, 1>>, <<43302, 43309, 1>>,
    <<43335, 43345, 1>>, <<43392, 43394, 1>>, <<43443, 43443, 1>>,
    <<43446, 43449, 1>>, <<43452, 43453, 1>>, <<43471, 43471, 1>>,
    <<43493, 43494, 1>>, <<43561, 43566, 1>>, <<43569, 43570, 1>>,
    <<43573, 43574, 1>>, <<43587, 43587, 1>>, <<43596, 43596, 1>>,
    <<43632, 43632, 1>>, <<43644, 43644, 1>>, <<43696, 43698, 2>>,
    <<43699, 43700, 1>>, <<43703, 43704, 1>>, <<43710, 43711, 1>>,
    <<43713, 43713, 1>>, <<43741, 43741, 1>>, <<43756, 43757, 1>>,
    <<43763, 43764, 1>>, <<43766, 43766, 1>>, <<43867, 43871, 1>>,
    <<43881, 43883, 1>>, <<44005, 44005, 1>>, <<44008, 44008, 1>>,
    <<44013, 44013, 1>>, <<64286, 64286, 1>>, <<64434, 64450, 1>>,
    <<65024, 65039, 1>>, <<65043, 65043, 1>>, <<65056, 65071, 1>>,
    <<65106, 65106, 1>>, <<65109, 65109, 1>>, <<65279, 65279, 1>>,
    <<65287, 65287, 1>>, <<65294, 65294, 1>>, <<65306, 65306, 1>>,
    <<65342, 65344, 2>>, <<65392, 65392, 1>>, <<65438, 65439, 1>>,
    <<65507, 65507, 1>>, <<65529, 65531, 1>>, <<66045, 66045, 1>>,
    <<66272, 66272, 1>>, <<66422, 66426, 1>>, <<67456, 67461, 1>>,
    <<67463, 67504, 1>>, <<67506, 67514, 1>>, <<68097, 68099, 1>>,
    <<68101, 68102, 1>>, <<68108, 68111, 1>>, <<68152, 68154, 1>>,
    <<68159, 68159, 1>>, <<68325, 68326, 1>>, <<68900, 68903, 1>>,
    <<69291, 69292, 1>>, <<69446, 69456, 1>>, <<69506, 69509, 1>>,
    <<69633, 69633, 1>>, <<69688, 69702, 1>>, <<69744, 69744, 1>>,
    <<69747, 69748, 1>>, <<69759, 69761, 1>>, <<69811, 69814, 1>>,
    <<69817, 69818, 1>>, <<69821, 69821, 1>>, <<69826, 69826, 1>>,
    <<69837, 69837, 1>>, <<69888, 69890, 1>>, <<69927, 69931, 1>>,
    <<69933, 69940, 1>>, <<70003, 70003, 1>>, <<70016, 70017, 1>>,
    <<70070, 70078, 1>>, <<70089, 70092, 1>>, <<70095, 70095, 1>>,
    <<70191, 70193, 1>>, <<70196, 70198, 2>>, <<70199, 70199, 1>>,
    <<70206, 70206, 1>>, <<70367, 70367, 1>>, <<70371, 70378, 1>>,
    <<70400, 70401, 1>>, <<70459, 70460, 1>>, <<70464, 70464, 1>>,
    <<70502, 70508, 1>>, <<70512, 70516, 1>>, <<70712, 70719, 1>>,
    <<70722, 70724, 1>>, <<70726, 70726, 1>>, <<70750, 70750, 1>>,
    <<70835, 70840, 1>>, <<70842, 70842, 1>>, <<70847, 70848, 1>>,
    <<70850, 70851, 1>>, <<71090, 71093, 1>>, <<71100, 71101, 1>>,
    <<71103, 71104, 1>>, <<71132, 71133, 1>>, <<71219, 71226, 1>>,
    <<71229, 71231, 2>>, <<71232, 71232, 1>>, <<71339, 71341, 2>>,
    <<71344, 71349, 1>>, <<71351, 71351, 1>>, <<71453, 71455, 1>>,
    <<71458, 71461, 1>>, <<71463, 71467, 1>>, <<71727, 71735, 1>>,
    <<71737, 71738, 1>>, <<71995, 71996, 1>>, <<71998, 71998, 1>>,
    <<72003, 72003, 1>>, <<72148, 72151, 1>>, <<72154, 72155, 1>>,
    <<72160, 72160, 1>>, <<72193, 72202, 1>>, <<72243, 72248, 1>>,
    <<72251, 72254, 1>>, <<72263, 72263, 1>>, <<72273, 72278, 1>>,
    <<72281, 72283, 1>>, <<72330, 72342, 1>>, <<72344, 72345, 1>>,
    <<72752, 72758, 1>>, <<72760, 72765, 1>>, <<72767, 72767, 1>>,
    <<72850, 72871, 1>>, <<72874, 72880, 1>>, <<72882, 72883, 1>>,
    <<72885, 72886, 1>>, <<73009, 73014, 1>>, <<73018, 73020, 2>>,
    <<73021, 73023, 2>>, <<73024, 73029, 1>>, <<73031, 73031, 1>>,
    <<73104, 73105, 1>>, <<73109, 73111, 2>>, <<73459, 73460, 1>>,
    <<78896, 78904, 1>>, <<92912, 92916, 1>>, <<92976, 92982, 1>>,
    <<92992, 92995, 1>>, <<94031, 94031, 1>>, <<94095, 94111, 1>>,
    <<94176, 94177, 1>>, <<94179, 94180, 1>>, <<110576, 110579, 1>>,
    <<110581, 110587, 1>>, <<110589, 110590, 1>>, <<113821, 113822, 1>>,
    <<113824, 113827, 1>>, <<118528, 118573, 1>>, <<118576, 118598, 1>>,
    <<119143, 119145, 1>>, <<119155, 119170, 1>>, <<119173, 119179, 1>>,
    <<119210, 119213, 1>>, <<119362, 119364, 1>>, <<121344, 121398, 1>>,
    <<121403, 121452, 1>>, <<121461, 121461, 1>>, <<121476, 121476, 1>>,
    <<121499, 121503, 1>>, <<121505, 121519, 1>>, <<122880, 122886, 1>>,
    <<122888, 122904, 1>>, <<122907, 122913, 1>>, <<122915, 122916, 1>>,
    <<122918, 122922, 1>>, <<123184, 123197, 1>>, <<123566, 123566, 1>>,
    <<123628, 123631, 1>>, <<125136, 125142, 1>>, <<125252, 125259, 1>>,
    <<127995, 127999, 1>>, <<917505, 917505, 1>>, <<917536, 917631, 1>>,
    <<917760, 917999, 1>> }

\* the cased characters: capital, small and title-case letters
CasedTable ==
  { <<65, 90, 1>>, <<97, 122, 1>>, <<170, 170, 1>>, <<181, 181, 1>>,
    <<186, 186, 1>>, <<192, 214, 1>>, <<216, 246, 1>>, <<248, 442, 1>>,
    <<444, 447, 1>>, <<452, 659, 1>>, <<661, 696, 1>>, <<704, 705, 1>>,
    <<736, 740, 1>>, <<837, 837, 1>>, <<880, 883, 1>>, <<886, 887, 1>>,
    <<890, 893, 1>>, <<895, 895, 1>>, <<902, 904, 2>>, <<905, 906, 1>>,
    <<908, 910, 2>>, <<911, 929, 1>>, <<931, 1013, 1>>, <<1015, 1153, 1>>,
    <<1162, 1327, 1>>, <<1329, 1366, 1>>, <<1376, 1416, 1>>,
    <<4256, 4293, 1>>, <<4295, 4295, 1>>, <<4301, 4301, 1>>,
    <<4304, 4346, 1>>, <<4349, 4351, 1>>, <<5024, 5109, 1>>,
    <<5112, 5117, 1>>, <<7296, 7304, 1>>, <<7312, 7354, 1>>,
    <<7357, 7359, 1>>, <<7424, 7615, 1>>, <<7680, 7957, 1>>,
    <<7960, 7965, 1>>, <<7968, 8005, 1>>, <<8008, 8013, 1>>,
    <<8016, 8023, 1>>, <<8025, 8031, 2>>, <<8032, 8061, 1>>,
    <<8064, 8116, 1>>, <<8118, 8124, 1>>, <<8126, 8126, 1>>,
    <<8130, 8132, 1>>, <<8134, 8140, 1>>, <<8144, 8147, 1>>,
    <<8150, 8155, 1>>, <<8160, 8172, 1>>, <<8178, 8180, 1>>,
    <<8182, 8188, 1>>, <<8305, 8305, 1>>, <<8319, 8319, 1>>,
    <<8336, 8348, 1>>, <<8450, 8450, 1>>, <<8455, 8455, 1>>,
    <<8458, 8467, 1>>, <<8469, 8469, 1>>, <<8473, 8477, 1>>,
    <<8484, 8490, 2>>, <<8491, 8493, 1>>, <<8495, 8500, 1>>,
    <<8505, 8505, 1>>, <<8508, 8511, 1>>, <<8517, 8521, 1>>,
    <<8526, 8526, 1>>, <<8544, 8575, 1>>, <<8579, 8580, 1>>,
    <<9398, 9449, 1>>, <<11264, 11492, 1>>, <<11499, 11502, 1>>,
    <<11506, 11507, 1>>, <<11520, 11557, 1>>, <<11559, 11559, 1>>,
    <<11565, 11565, 1>>, <<42560, 42605, 1>>, <<42624, 42653, 1>>,
    <<42786, 42887, 1>>, <<42891, 42894, 1>>, <<42896, 42954, 1>>,
    <<42960, 42961, 1>>, <<42963, 42965, 2>>, <<42966, 42969, 1>>,
    <<42997, 42998, 1>>, <<43000, 43002, 1>>, <<43824, 43866, 1>>,
    <<43868, 43880, 1>>, <<43888, 43967, 1>>, <<64256, 64262, 1>>,
    <<64275, 64279, 1>>, <<65313, 65338, 1>>, <<65345, 65370, 1>>,
    <<66560, 66639, 1>>, <<66736, 66771, 1>>, <<66776, 66811, 1>>,
    <<66928, 66938, 1>>, <<66940, 66954, 1>>, <<66956, 66962, 1>>,
    <<66964, 66965, 1>>, <<66967, 66977, 1>>, <<66979, 66993, 1>>,
    <<66995, 67001, 1>>, <<67003, 67004, 1>>, <<67456, 67456, 1>>,
    <<67459, 67461, 1>>, <<67463, 67504, 1>>, <<67506, 67514, 1>>,
    <<68736, 68786, 1>>, <<68800, 68850, 1>>, <<71840, 71903, 1>>,
    <<93760, 93823, 1>>, <<119808, 119892, 1>>, <<119894, 119964, 1>>,
    <<119966, 119967, 1>>, <<119970, 119970, 1>>, <<119973, 119974, 1>>,
    <<119977, 119980, 1>>, <<119982, 119993, 1>>, <<119995, 119997, 2>>,
    <<119998, 120003, 1>>, <<120005, 120069, 1>>, <<120071, 120074, 1>>,
    <<120077, 120084, 1>>, <<120086, 120092, 1>>, <<120094, 120121, 1>>,
    <<120123, 120126, 1>>, <<120128, 120132, 1>>, <<120134, 120134, 1>>,
    <<120138, 120144, 1>>, <<120146, 120485, 1>>, <<120488, 120512, 1>>,
    <<120514, 120538, 1>>, <<120540, 120570, 1>>, <<120572, 120596, 1>>,
    <<120598, 120628, 1>>, <<120630, 120654, 1>>, <<120656, 120686, 1>>,
    <<120688, 120712, 1>>, <<120714, 120744, 1>>, <<120746, 120770, 1>>,
    <<120772, 120779, 1>>, <<122624, 122633, 1>>, <<122635, 122654, 1>>,
    <<125184, 125251, 1>>, <<127280, 127305, 1>>, <<127312, 127337, 1>>,
    <<127344, 127369, 1>> }

IsCaseIgnorable(c) == \E r \in CaseIgnorableTable : InRun(c, r)
IsCased(c) == \E r \in CasedTable : InRun(c, r)

\* the small letter of a character that has one, else the character
ToLower(c) ==
    IF \E r \in LowerTable : InRun(c, r)
      THEN c + (CHOOSE r \in LowerTable : InRun(c, r))[4]
    ELSE c

\* text[i] is a capital sigma at the end of a word: the nearest character
\* before it that is not skipped is cased, and the nearest after it, if any,
\* is not
final_sigma(text, i) ==
    LET before == { j \in 1..(i - 1) : ~IsCaseIgnorable(text[j]) }
        after  == { j \in (i + 1)..Len(text) : ~IsCaseIgnorable(text[j]) }
    IN  /\ before # {}
        /\ IsCased(text[CHOOSE j \in before : \A k \in before : k <= j])
        /\ \/ after = {}
           \/ ~IsCased(text[CHOOSE j \in after : \A k \in after : j <= k])

\* what str.lower writes for text[i]: capital I with dot above (304) becomes
\* i and a combining dot, capital sigma (931) a final or a medial small sigma
LowerChar(text, i) ==
    IF text[i] = 304 THEN <<105, 775>>
    ELSE IF text[i] = 931
      THEN <<IF final_sigma(text, i) THEN 962 ELSE 963>>
    ELSE <<ToLower(text[i])>>

RECURSIVE LowerFrom(_, _)
LowerFrom(text, i) ==
    IF i > Len(text) THEN <<>>
    ELSE LowerChar(text, i) \o LowerFrom(text, i + 1)

\* text.lower()
Lower(text) == LowerFrom(text, 1)

\* w in text: w is a substring of text
Contains(w, text) ==
    \E i \in 0..(Len(text) - Len(w)) : SubSeq(text, i + 1, i + Len(w)) = w

\* w in text.lower()
ContainsLower(text, w) == Contains(w, Lower(text))

\* the string literals "overflow" and "congestion" of analyze_placement
kw_overflow == <<111, 118, 101, 114, 102, 108, 111, 119>>
kw_congestion == <<99, 111, 110, 103, 101, 115, 116, 105, 111, 110>>

\* words that error texts are made of: "GPL", "Overflows", "CONGESTION"
W_GPL == <<71, 80, 76>>
W_Overflows == <<79, 118, 101, 114, 102, 108, 111, 119, 115>>
W_CONGESTION == <<67, 79, 78, 71, 69, 83, 84, 73, 79, 78>>

RECURSIVE JoinWords(_)
\* " ".join(ws)
JoinWords(ws) ==
    IF ws = <<>> THEN <<>>
    ELSE IF Len(ws) = 1 THEN ws[1]
    ELSE ws[1] \o <<32>> \o JoinWords(Tail(ws))

analyze_synthesis(result) ==
    LET s1 == IF Len(result.timing) > 0 /\ has_violations(result.timing[1])
              THEN << <<"Timing violations detected", result.timing[1].wns,
                        result.timing[1].clock_period>> >>
              ELSE <<>>
        s2 == IF Len(result.area) > 0 /\ result.area[1].total_cells > 10000
              THEN << <<"Large design", result.area[1].total_cells>> >>
              ELSE <<>>
    IN  s1 \o s2

RECURSIVE placement_suggestions(_)
\* the loop of analyze_placement over result.errors
placement_suggestions(errors) ==
    IF errors = <<>> THEN <<>>
    ELSE (IF ContainsLower(Head(errors), kw_overflow)
            THEN << <<"Placement overflow detected">> >>
          ELSE IF ContainsLower(Head(errors), kw_congestion)
            THEN << <<"Routing congestion predicted">> >>
          ELSE <<>>) \o placement_suggestions(Tail(errors))

analyze_placement(result) == placement_suggestions(result.errors)

analyze_routing(result) ==
    IF Len(result.routing) = 0 THEN <<>>
    ELSE (IF result.routing[1].drc_violations > 0
            THEN << <<"DRC violations found", result.routing[1].drc_violations>> >>
            ELSE <<>>)
         \o
         (IF result.routing[1].antenna_violations > 0
            THEN << <<"antenna violations", result.routing[1].antenna_violations>> >>
            ELSE <<>>)

\* main: the analyzer chosen by stage (lines 467-474)
analyze(stage, result) ==
    IF stage = "synthesis" THEN analyze_synthesis(result)
    ELSE IF stage = "placement" THEN analyze_placement(result)
    ELSE IF stage = "routing" THEN analyze_routing(result)
    ELSE <<>>

(***************************************************************************)
(* Stage executor.  The stage itself is run by the external tool chain:    *)
(* what it reports is an input.                                            *)
(***************************************************************************)
\* What the tool chain may report for a stage: a pass, with or without
\* metrics, or a failure, with or without an error text
RunnerResults(stage) ==
    { StageResult(stage, TRUE, <<>>, <<>>, <<>>, <<>>),
      StageResult(stage, FALSE, <<>>, <<>>, <<>>, <<>>) }
    \cup (IF stage = "synthesis"
            THEN { StageResult(stage, TRUE,
                               <<TimingMetrics(0 - 1, 0 - 1, 0, 0, 10, 10)>>,
                               <<AreaMetrics(12000, 0, 0, 0, 0)>>, <<>>, <<>>) }
          ELSE IF stage = "placement"
            THEN { StageResult(stage, FALSE, <<>>, <<>>, <<>>,
                               <<JoinWords(<<W_GPL, W_Overflows>>)>>) }
          ELSE IF stage = "routing"
            THEN { StageResult(stage, TRUE, <<>>, <<>>,
                               <<RoutingMetrics(2, 1, 0, 0, 0)>>, <<>>) }
          ELSE {})

\* OpenLaneFlowExecutor.run_stage: the result is appended to the history
recorded_passes_only(history, result) ==
    IF result.success THEN Append(history, result) ELSE history
recorded(history, result) == Append(history, result)

(***************************************************************************)
(* main(): the iteration controller.                                       *)
(***************************************************************************)
\* while iteration < max_iterations
loop_condition_off_by_one(it) == it <= max_iterations
loop_condition(it) == it < max_iterations

\* lines 440-456: an iteration begins
IterStart ==
    /\ pc = "while"
    /\ loop_condition(iteration)
    /\ iteration' = iteration + 1
    /\ failed_stage' = "None"
    /\ stage_i' = 1
    /\ pc' = "stages"
    /\ snapshot' = <<config, store>>
    /\ UNCHANGED <<results, suggestions, reported, iter_of, start>>
    /\ UNCHANGED tunerVars
    /\ UNCHANGED parseVars

\* line 440: the budget is used up
LoopExit ==
    /\ pc = "while"
    /\ ~loop_condition(iteration)
    /\ pc' = "summary"
    /\ UNCHANGED <<iteration, stage_i, failed_stage, results, suggestions,
                   reported, iter_of, snapshot, start>>
    /\ UNCHANGED tunerVars
    /\ UNCHANGED parseVars

\* if not result.success: ... break
stops_never(result) == FALSE
stops(result) == ~result.success

\* lines 458-479: one pass of the for loop over stages
RunStage ==
    /\ pc = "stages"
    /\ \E result \in RunnerResults(stages[stage_i]) :
         /\ results' = recorded(results, result)
         /\ iter_of' = Append(iter_of, iteration)
         /\ IF stops(result)
              THEN /\ failed_stage' = stages[stage_i]
                   /\ pc' = "check"
                   /\ UNCHANGED <<stage_i, suggestions>>
              ELSE /\ suggestions' = analyze(stages[stage_i], result)
                   /\ IF stage_i < Len(stages)
                        THEN stage_i' = stage_i + 1 /\ pc' = "stages"
                        ELSE stage_i' = stage_i /\ pc' = "check"
                   /\ UNCHANGED failed_stage
    /\ UNCHANGED <<iteration, reported, snapshot, start>>
    /\ UNCHANGED tunerVars
    /\ UNCHANGED parseVars

\* if failed_stage == FlowStage.ROUTING
tunes_any_failure(failed) == TRUE
tunes(failed) == failed = "routing"

\* lines 481-493: after the stages of an iteration
Check ==
    /\ pc = "check"
    /\ IF failed_stage = "None"
         THEN /\ pc' = "summary"
              /\ UNCHANGED tunerVars
         ELSE /\ pc' = "while"
              /\ IF tunes(failed_stage)
                   THEN adjust_for_routing_congestion(iteration)
                   ELSE UNCHANGED tunerVars
    /\ UNCHANGED <<iteration, stage_i, failed_stage, results, suggestions,
                   reported, iter_of, snapshot, start>>
    /\ UNCHANGED parseVars

\* lines 495-504: the flow summary
Summary ==
    /\ pc = "summary"
    /\ reported' = [iterations |-> iteration, stages |-> Len(results)]
    /\ pc' = "done"
    /\ UNCHANGED <<iteration, stage_i, failed_stage, results, suggestions,
                   iter_of, snapshot, start>>
    /\ UNCHANGED tunerVars
    /\ UNCHANGED parseVars

\* config.json when the run starts
Member(k, v) == <<k, v>>
StartFiles ==
    { {Member("CLOCK_PERIOD", PyInt(10))},
      {Member("CLOCK_PERIOD", PyInt(10)), Member("PL_TARGET_DENSITY", Dec(55)),
       Member("FP_CORE_UTIL", 50)},
      {Member("PL_TARGET_DENSITY", Dec(45)), Member("FP_CORE_UTIL", 40)} }

NoReport == [exists |-> FALSE, path |-> "", content |-> <<>>]
NoParse == [parser |-> "none", metrics |-> <<>>, errors |-> <<>>]
NoCall == <<>>

\* lines 432-438: main() up to the loop
Init ==
    /\ store \in StartFiles
    /\ config = load_config(store)
    /\ pc = "while"
    /\ iteration = 0
    /\ stage_i = 1
    /\ failed_stage = "None"
    /\ results = <<>>
    /\ suggestions = <<>>
    /\ reported = [iterations |-> 0, stages |-> 0]
    /\ iter_of = <<>>
    /\ tuner_log = <<>>
    /\ snapshot = <<config, store>>
    /\ start = <<config, store>>
    /\ prev_config = config
    /\ report = NoReport
    /\ parsed = NoParse
    /\ hv = NoCall

Next == IterStart \/ LoopExit \/ RunStage \/ Check \/ Summary

Spec == Init /\ [][Next]_vars

\* main() is sequential code: it takes its next step unless a stage never
\* returns
FairSpec == Spec /\ WF_vars(Next)

(***************************************************************************)
(* The tuner alone: its two adjustments called again and again, in any     *)
(* order, from any starting configuration.                                 *)
(***************************************************************************)
TunerStartFiles ==
    { {Member("CLOCK_PERIOD", PyInt(10))} \cup d \cup u :
        d \in { {} } \cup { {Member("PL_TARGET_DENSITY", Dec(h))} : h \in 0..MaxDensity },
        u \in { {} } \cup { {Member("FP_CORE_UTIL", n)} : n \in 0..MaxUtil } }
    \cup { {}, {Member("PL_TARGET_DENSITY", Dec(55)), Member("FP_CORE_UTIL", 50)} }

TunerInit ==
    /\ store \in TunerStartFiles
    /\ config = load_config(store)
    /\ prev_config = config
    /\ tuner_log = <<>>
    /\ pc = "tuner"
    /\ iteration = 0
    /\ stage_i = 1
    /\ failed_stage = "None"
    /\ results = <<>>
    /\ suggestions = <<>>
    /\ reported = [iterations |-> 0, stages |-> 0]
    /\ iter_of = <<>>
    /\ snapshot = <<config, store>>
    /\ start = <<config, store>>
    /\ report = NoReport
    /\ parsed = NoParse
    /\ hv = NoCall

TunerCall ==
    /\ pc = "tuner"
    /\ Len(tuner_log) < MaxCalls
    /\ adjust_for_routing_congestion(0)
    /\ UNCHANGED ctlVars
    /\ UNCHANGED parseVars

\* the wns values handed to adjust_for_timing_violation
WnsInputs == {0 - 1, 0}

TunerTiming ==
    /\ pc = "tuner"
    /\ ToFloat(Get(config, "CLOCK_PERIOD", period_default)).exp <= MaxPeriodExp
    /\ \E wns \in WnsInputs : adjust_for_timing_violation(wns)
    /\ UNCHANGED ctlVars
    /\ UNCHANGED parseVars

TunerNext == TunerCall \/ TunerTiming

SpecTuner == TunerInit /\ [][TunerNext]_vars

(***************************************************************************)
(* Report parsers.  A report file is the sequence of its lines; a line is  *)
(* what the parsers' patterns can find in it:                              *)
(*   kind "slack": "slack (<tag>) <val>"                                   *)
(*   kind "total": "Total DRC violations: <val>"                           *)
(*   kind "error": a line with val occurrences of "[ERROR]"                *)
(*   kind "cells": "Number of cells: <val>"                                *)
(*   kind "area":  "Chip area for module '...': <val>"                     *)
(*   kind "other": anything else                                           *)
(***************************************************************************)
Line(kind, tag, val) == [kind |-> kind, tag |-> tag, val |-> val]

StaLines ==
    { Line("slack", t, v) : t \in {"MET", "VIOLATED"}, v \in (0 - MaxSlack)..MaxSlack }
    \cup { Line("slack", "UNCONSTRAINED", 0 - 1), Line("other", "", 0) }
DrcLines ==
    { Line("total", "", 0), Line("total", "", 2), Line("error", "", 1),
      Line("error", "", 2), Line("other", "", 0) }
StatLines ==
    { Line("cells", "", 10), Line("cells", "", 12000), Line("area", "", 50),
      Line("other", "", 0) }

SeqsUpTo(S, n) == UNION { [1..k -> S] : k \in 0..n }

Paths == {"reports/synthesis/sta.rpt", "reports/routing/drc_violations.rpt"}

Reports ==
    { [exists |-> FALSE, path |-> p, content |-> <<>>] : p \in Paths }
    \cup { [exists |-> TRUE, path |-> "reports/report.rpt", content |-> c] :
             c \in SeqsUpTo(StaLines, MaxLines) \cup SeqsUpTo(DrcLines, MaxLines)
                   \cup SeqsUpTo(StatLines, MaxLines) }

RECURSIVE SelectLines(_, _)
\* re.findall: the lines of a kind, in file order
SelectLines(content, kind) ==
    IF content = <<>> THEN <<>>
    ELSE (IF Head(content).kind = kind THEN <<Head(content)>> ELSE <<>>)
         \o SelectLines(Tail(content), kind)

\* SynthesisReportParser.parse_stat_report
parse_stat_report(rp) ==
    IF ~rp.exists
      THEN [metrics |-> AreaMetrics(0, 0, 0, 0, 0),
            errors |-> << <<"Synthesis report not found: ", rp.path>> >>]
    ELSE LET cell_match == SelectLines(rp.content, "cells")
             area_match == SelectLines(rp.content, "area")
         IN  [metrics |-> AreaMetrics(
                  IF cell_match # <<>> THEN cell_match[1].val ELSE 0,
                  IF area_match # <<>> THEN area_match[1].val ELSE 0, 0, 0, 0),
              errors |-> <<>>]

RECURSIVE slack_values(_)
\* [float(s[1]) for s in re.findall(r'slack \((MET|VIOLATED)\)\s+([-\d.]+)')]
slack_values(content) ==
    IF content = <<>> THEN <<>>
    ELSE (IF Head(content).kind = "slack" /\ Head(content).tag \in {"MET", "VIOLATED"}
            THEN <<Head(content).val>> ELSE <<>>)
         \o slack_values(Tail(content))

RECURSIVE Min(_)
\* min(slacks), slacks not empty
Min(sq) ==
    IF Len(sq) = 1 THEN sq[1]
    ELSE IF sq[1] <= Min(Tail(sq)) THEN sq[1] ELSE Min(Tail(sq))

RECURSIVE SumAll(_)
SumAll(sq) == IF sq = <<>> THEN 0 ELSE Head(sq) + SumAll(Tail(sq))

\* sum(s for s in slacks if s < 0)
negative_sum_signless(slacks) == SumAll(slacks)
negative_sum(slacks) == SumAll(SelectSeq(slacks, LAMBDA x : x < 0))

\* TimingReportParser.parse_sta_report
parse_sta_report(rp) ==
    IF ~rp.exists
      THEN [metrics |-> TimingMetrics(0, 0, 0, 0, 0, 10),
            errors |-> << <<"Timing report not found: ", rp.path>> >>]
    ELSE LET slacks == slack_values(rp.content)
             wns == IF slacks # <<>> THEN Min(slacks) ELSE 0
             tns == IF slacks # <<>> THEN negative_sum(slacks) ELSE 0
         IN  [metrics |-> TimingMetrics(wns, tns, 0, 0,
                                        IF wns > 0 THEN 10 - wns ELSE 10, 10),
              errors |-> <<>>]

RECURSIVE SumVal(_)
SumVal(lines) == IF lines = <<>> THEN 0 ELSE Head(lines).val + SumVal(Tail(lines))

\* the count of parse_drc_report (lines 218-223)
drc_count_errors_only(content) == SumVal(SelectLines(content, "error"))
drc_count(content) ==
    LET drc_match == SelectLines(content, "total")
    IN  IF drc_match # <<>> THEN drc_match[1].val
        ELSE SumVal(SelectLines(content, "error"))

\* RoutingReportParser.parse_drc_report
parse_drc_report(rp) ==
    IF ~rp.exists
      THEN [metrics |-> RoutingMetrics(0, 0, 0, 0, 0), errors |-> <<>>]
    ELSE [metrics |-> RoutingMetrics(drc_count(rp.content), 0, 0, 0, 0),
          errors |-> IF drc_count(rp.content) > 0
                       THEN << <<"Found ", drc_count(rp.content), " DRC violations">> >>
                       ELSE <<>>]

Returned(name, r) == [parser |-> name, metrics |-> r.metrics, errors |-> r.errors]

ParseStat ==
    /\ pc = "parse"
    /\ hv = NoCall
    /\ parsed' = Returned("stat", parse_stat_report(report))
    /\ UNCHANGED <<report, hv>>
    /\ UNCHANGED ctlVars
    /\ UNCHANGED tunerVars

ParseSta ==
    /\ pc = "parse"
    /\ hv = NoCall
    /\ parsed' = Returned("sta", parse_sta_report(report))
    /\ UNCHANGED <<report, hv>>
    /\ UNCHANGED ctlVars
    /\ UNCHANGED tunerVars

ParseDrc ==
    /\ pc = "parse"
    /\ hv = NoCall
    /\ parsed' = Returned("drc", parse_drc_report(report))
    /\ UNCHANGED <<report, hv>>
    /\ UNCHANGED ctlVars
    /\ UNCHANGED tunerVars

\* TimingMetrics objects has_violations is called on: parsed ones and others
TimingInputs ==
    IF parsed.parser = "sta" THEN {parsed.metrics}
    ELSE IF parsed.parser = "none"
      THEN { TimingMetrics(w, 0, h, 0, 10, 10) :
               w \in {0 - 1, 0, 1}, h \in {0 - 1, 0, 1} }
    ELSE {}

HasViolations ==
    /\ pc = "parse"
    /\ \E t \in TimingInputs : hv' = <<t, has_violations(t)>>
    /\ UNCHANGED <<report, parsed>>
    /\ UNCHANGED ctlVars
    /\ UNCHANGED tunerVars

ParseInit ==
    /\ report \in Reports
    /\ parsed = NoParse
    /\ hv = NoCall
    /\ pc = "parse"
    /\ store = {Member("CLOCK_PERIOD", PyInt(10))}
    /\ config = load_config(store)
    /\ prev_config = config
    /\ tuner_log = <<>>
    /\ iteration = 0
    /\ stage_i = 1
    /\ failed_stage = "None"
    /\ results = <<>>
    /\ suggestions = <<>>
    /\ reported = [iterations |-> 0, stages |-> 0]
    /\ iter_of = <<>>
    /\ snapshot = <<config, store>>
    /\ start = <<config, store>>

ParseNext == ParseStat \/ ParseSta \/ ParseDrc \/ HasViolations

SpecParse == ParseInit /\ [][ParseNext]_vars

(***************************************************************************)
(* The placement analyzer on its own: analyze_placement applied once to a  *)
(* placement StageResult whose error list is drawn from bounded texts.     *)
(* An error text is up to MaxWords words joined by spaces; a result with   *)
(* errors = None is the one with the empty list, as `if result.errors`     *)
(* treats both alike.                                                      *)
(***************************************************************************)
MaxErrors == 2
MaxWords == 2

ErrorWords == {W_GPL, W_Overflows, W_CONGESTION}

ErrorTexts == { JoinWords(ws) : ws \in SeqsUpTo(ErrorWords, MaxWords) }

PlacementResults ==
    { StageResult("placement", ok, <<>>, <<>>, <<>>, errs) :
        ok \in BOOLEAN, errs \in SeqsUpTo(ErrorTexts, MaxErrors) }

AnalyzeInit ==
    /\ pc = "analyze"
    /\ \E r \in PlacementResults : results = <<r>>
    /\ suggestions = <<>>
    /\ report = NoReport
    /\ parsed = NoParse
    /\ hv = NoCall
    /\ store = {Member("CLOCK_PERIOD", PyInt(10))}
    /\ config = load_config(store)
    /\ prev_config = config
    /\ tuner_log = <<>>
    /\ iteration = 0
    /\ stage_i = 1
    /\ failed_stage = "None"
    /\ reported = [iterations |-> 0, stages |-> 0]
    /\ iter_of = <<>>
    /\ snapshot = <<config, store>>
    /\ start = <<config, store>>

AnalyzePlacement ==
    /\ pc = "analyze"
    /\ suggestions' = analyze_placement(results[1])
    /\ pc' = "analyzed"
    /\ UNCHANGED <<iteration, stage_i, failed_stage, results, reported,
                   iter_of, snapshot, start>>
    /\ UNCHANGED tunerVars
    /\ UNCHANGED parseVars

AnalyzeNext == AnalyzePlacement

SpecAnalyze == AnalyzeInit /\ [][AnalyzeNext]_vars

(***************************************************************************)
(* Properties of the iteration controller.  They are stated over the       *)
(* history: results[k] was produced in iteration iter_of[k].               *)
(***************************************************************************)
\* 1-based place of a stage in the list of stages
StageIndex(name) == CHOOSE i \in 1..Len(stages) : stages[i] = name

\* the attempts of iteration n, and those of them that failed
AttemptsOf(n) == { k \in 1..Len(results) : iter_of[k] = n }
FailedOf(n) == { k \in AttemptsOf(n) : ~results[k].success }
Least(S) == CHOOSE k \in S : \A j \in S : k <= j
\* the first failed stage of iteration n, "None" when every attempt passed
FirstFailed(n) ==
    IF FailedOf(n) = {} THEN "None" ELSE results[Least(FailedOf(n))].stage

\* iteration n ran all six stages and none failed
FullSuccess(n) == Cardinality(AttemptsOf(n)) = Len(stages) /\ FailedOf(n) = {}

\* the iterations whose stage loop is over
Completed == IF pc \in {"stages", "check"} THEN iteration - 1 ELSE iteration

\* C1: in every iteration the stages run in the order synthesis, floorplan,
\* placement, cts, routing, signoff, starting from synthesis, and a stage that
\* fails is the last stage run in its iteration.
C1_StageOrder ==
    /\ Len(iter_of) = Len(results)
    /\ \A k \in 1..Len(results) :
         LET first == k = 1 \/ iter_of[k - 1] # iter_of[k]
         IN  /\ first => results[k].stage = stages[1]
             /\ ~first =>
                  /\ results[k - 1].success
                  /\ StageIndex(results[k].stage)
                       = StageIndex(results[k - 1].stage) + 1
             /\ ~results[k].success =>
                  (k = Len(results) \/ iter_of[k + 1] # iter_of[k])

\* an iteration failed at placement and the next one is running
C1_Witness ==
    \E k \in 1..Len(results) :
        /\ ~results[k].success
        /\ results[k].stage = "placement"
        /\ k + 1 < Len(results)
        /\ results[k + 2].stage = "floorplan"

RECURSIVE ExpectedLength(_)
\* the sum over iterations 1..n of (0-based index of the first failed stage
\* + 1), 6 for an iteration without a failed stage
ExpectedLength(n) ==
    IF n = 0 THEN 0
    ELSE ExpectedLength(n - 1)
         + (IF FirstFailed(n) = "None" THEN Len(stages)
            ELSE (StageIndex(FirstFailed(n)) - 1) + 1)

\* C2: every stage attempt is appended to executor.results exactly once, and
\* after N completed iterations the history holds the sum over them of (index
\* of the first failed stage + 1), 6 for an iteration that passed every stage.
C2_HistoryLength ==
    /\ Len(results) = Len(iter_of)
    /\ pc \in {"while", "summary", "done"} =>
         Len(results) = ExpectedLength(iteration)

\* three iterations failing at cts, synthesis and signoff: 4 + 1 + 6 attempts
C2_Witness ==
    /\ pc = "done"
    /\ iteration = 3
    /\ FirstFailed(1) = "cts"
    /\ FirstFailed(2) = "synthesis"
    /\ FirstFailed(3) = "signoff"
    /\ Len(results) = 11

\* the terminal states of the controller, read from the history
DoneSuccess == pc = "done" /\ iteration >= 1 /\ FullSuccess(iteration)
DoneExhausted ==
    /\ pc = "done"
    /\ iteration = max_iterations
    /\ \A n \in 1..max_iterations : FailedOf(n) # {}

\* the iterations that were started: each runs synthesis first
Started == Cardinality({ iter_of[k] : k \in 1..Len(iter_of) })

\* C3: when every stage invocation returns, the controller terminates, after
\* at most max_iterations iterations, in exactly one of DONE_SUCCESS and
\* DONE_EXHAUSTED; once an iteration has passed all six stages no stage is run
\* and no tuner operation is called; the reported iteration count is the
\* number of iterations started.
C3_Terminates ==
    /\ <>(pc = "done")
    /\ [](iteration <= max_iterations)
    /\ [](pc = "done" =>
            /\ DoneSuccess \/ DoneExhausted
            /\ ~(DoneSuccess /\ DoneExhausted)
            /\ reported.iterations = Started
            /\ reported.iterations <= max_iterations)
    /\ [][(\E n \in 1..iteration : FullSuccess(n)) =>
            /\ results' = results
            /\ iter_of' = iter_of
            /\ tuner_log' = tuner_log
            /\ config' = config
            /\ store' = store]_vars

\* the budget is used up: three iterations, each with a failed stage
C3_Witness ==
    /\ DoneExhausted
    /\ reported.iterations = 3
    /\ FirstFailed(3) = "routing"

\* iteration n failed at placement with an error containing "overflow"
PlacementOverflow(n) ==
    /\ FirstFailed(n) = "placement"
    /\ \E e \in 1..Len(results[Least(FailedOf(n))].errors) :
          ContainsLower(results[Least(FailedOf(n))].errors[e], kw_overflow)

\* C4: only a routing failure causes a tuner call.  While the stages of an
\* iteration run, and after an iteration whose failed stage is not routing (or
\* that has none), the configuration in memory and on disk is what it was when
\* the iteration began; a run in which placement fails with "overflow" in
\* every iteration ends exhausted after 3 iterations with the configuration
\* it started with.
C4_OnlyRoutingTunes ==
    /\ \A j \in 1..Len(tuner_log) : FirstFailed(tuner_log[j]) = "routing"
    /\ pc \in {"stages", "check"} =>
         config = snapshot[1] /\ store = snapshot[2]
    /\ (pc \in {"while", "summary", "done"} /\ iteration >= 1
          /\ FirstFailed(iteration) # "routing") =>
         config = snapshot[1] /\ store = snapshot[2]
    /\ (pc = "done" /\ \A n \in 1..iteration : PlacementOverflow(n)) =>
         /\ iteration = 3
         /\ DoneExhausted
         /\ tuner_log = <<>>
         /\ config = start[1]
         /\ store = start[2]

\* placement failed with "overflow" in each of three iterations, after a
\* synthesis stage for which the analyzer returned suggestions
C4_Witness ==
    /\ pc = "done"
    /\ iteration = 3
    /\ \A n \in 1..3 :
         /\ PlacementOverflow(n)
         /\ analyze_synthesis(results[Least(AttemptsOf(n))]) # <<>>
    /\ config = start[1]
    /\ store = start[2]

(***************************************************************************)
(* Properties of the tuner.                                                *)
(***************************************************************************)
\* the values a call reads: the key's value, or the default when it is absent
DensityBefore == Get(prev_config, "PL_TARGET_DENSITY", density_default)
UtilBefore == Get(prev_config, "FP_CORE_UTIL", 50)

\* C5: after one or more calls of adjust_for_routing_congestion, from any
\* starting configuration, PL_TARGET_DENSITY is at least 0.40 and FP_CORE_UTIL
\* at least 35, and a value at its floor before a call is at its floor after.
C5_Floor ==
    Len(tuner_log) >= 1 =>
        /\ FLeq(Dec(40), config["PL_TARGET_DENSITY"])
        /\ config["FP_CORE_UTIL"] >= 35
        /\ DensityBefore = Dec(40) => config["PL_TARGET_DENSITY"] = Dec(40)
        /\ UtilBefore = 35 => config["FP_CORE_UTIL"] = 35

\* a third call on values that the second call found at their floors
C5_Witness ==
    /\ Len(tuner_log) = 3
    /\ "PL_TARGET_DENSITY" \in DOMAIN prev_config
    /\ DensityBefore = Dec(40)
    /\ UtilBefore = 35
    /\ config["PL_TARGET_DENSITY"] = Dec(40)
    /\ config["FP_CORE_UTIL"] = 35

\* C6 as stated: a call never increases PL_TARGET_DENSITY nor FP_CORE_UTIL,
\* whatever the starting value.
C6_Original ==
    Len(tuner_log) >= 1 =>
        /\ FLeq(config["PL_TARGET_DENSITY"], DensityBefore)
        /\ config["FP_CORE_UTIL"] <= UtilBefore

\* C6, amended: a call does not increase PL_TARGET_DENSITY when the value
\* before it is at least 0.40 (or the key is absent), nor FP_CORE_UTIL when the
\* value before it is at least 35 (or the key is absent); a value below its
\* floor is raised to the floor.  From the second call on neither value
\* increases.
C6_Monotonic ==
    Len(tuner_log) >= 1 =>
        /\ FLeq(Dec(40), DensityBefore) =>
             FLeq(config["PL_TARGET_DENSITY"], DensityBefore)
        /\ FLess(DensityBefore, Dec(40)) => config["PL_TARGET_DENSITY"] = Dec(40)
        /\ UtilBefore >= 35 => config["FP_CORE_UTIL"] <= UtilBefore
        /\ UtilBefore < 35 => config["FP_CORE_UTIL"] = 35
        /\ Len(tuner_log) >= 2 =>
             /\ FLeq(config["PL_TARGET_DENSITY"], DensityBefore)
             /\ config["FP_CORE_UTIL"] <= UtilBefore

\* a first call that found 0.20 and 20, below the floors, and raised them
C6_Witness ==
    /\ Len(tuner_log) = 1
    /\ "PL_TARGET_DENSITY" \in DOMAIN prev_config
    /\ "FP_CORE_UTIL" \in DOMAIN prev_config
    /\ DensityBefore = Dec(20)
    /\ UtilBefore = 20
    /\ config["PL_TARGET_DENSITY"] = Dec(40)
    /\ config["FP_CORE_UTIL"] = 35

\* an iteration whose routing stage failed has just been completed
AfterRoutingFailure ==
    /\ pc \in {"while", "summary", "done"}
    /\ iteration >= 1
    /\ FirstFailed(iteration) = "routing"

\* The part of C7 that does not name decimal values: an iteration whose
\* routing stage failed calls adjust_for_routing_congestion exactly once; the
\* call sets PL_TARGET_DENSITY to max(0.40, density - 0.10) in float
\* arithmetic, FP_CORE_UTIL to max(35, utilization - 10) and GLB_RT_ADJUSTMENT
\* to 0.20, keeps the other keys and writes the whole map to the store.
C7_TunedAsComputed ==
    /\ \A n \in 1..Completed :
         FirstFailed(n) = "routing" =>
           Cardinality({ j \in 1..Len(tuner_log) : tuner_log[j] = n }) = 1
    /\ AfterRoutingFailure =>
         LET before == snapshot[1]
             density == Get(before, "PL_TARGET_DENSITY", Dec(55))
             util == Get(before, "FP_CORE_UTIL", 50)
         IN  /\ config["PL_TARGET_DENSITY"]
                  = (IF FLess(Dec(40), FSub(density, Dec(10)))
                       THEN FSub(density, Dec(10)) ELSE Dec(40))
             /\ config["FP_CORE_UTIL"] = (IF util - 10 > 35 THEN util - 10 ELSE 35)
             /\ config["GLB_RT_ADJUSTMENT"] = Dec(20)
             /\ \A k \in DOMAIN before :
                  k \notin {"PL_TARGET_DENSITY", "FP_CORE_UTIL", "GLB_RT_ADJUSTMENT"}
                    => k \in DOMAIN config /\ config[k] = before[k]
             /\ load_config(store) = config

\* C7: an iteration whose routing stage failed calls
\* adjust_for_routing_congestion exactly once, which sets PL_TARGET_DENSITY to
\* max(0.40, density - 0.10), FP_CORE_UTIL to max(35, utilization - 10) and
\* GLB_RT_ADJUSTMENT to 0.20 and writes the whole map to the store; so from
\* 0.55 / 50 (also as defaults of absent keys) the values become 0.45 / 40 /
\* 0.20, and the next iteration begins with the store equal to the
\* configuration in memory.
C7_RoutingFailureTunes ==
    /\ C7_TunedAsComputed
    /\ (AfterRoutingFailure
          /\ Get(snapshot[1], "PL_TARGET_DENSITY", Dec(55)) = Dec(55)
          /\ Get(snapshot[1], "FP_CORE_UTIL", 50) = 50) =>
         /\ config["PL_TARGET_DENSITY"] = Dec(45)
         /\ config["FP_CORE_UTIL"] = 40
         /\ config["GLB_RT_ADJUSTMENT"] = Dec(20)
         /\ load_config(store) = config

(***************************************************************************)
(* Properties of the report parsers.                                       *)
(***************************************************************************)
\* every field of a metrics object is zero
AllZero(m) == \A f \in DOMAIN m : m[f] = 0

\* the <kind> of "<kind> report not found: <path>"
NotFoundKind ==
    CASE parsed.parser = "stat" -> "Synthesis report not found: "
      [] parsed.parser = "sta" -> "Timing report not found: "
      [] OTHER -> "DRC report not found: "

\* C8: each of the three parsers, given a path that does not exist, returns a
\* metrics object whose every field is zero and an error list of length at
\* least 1 whose entry is "<kind> report not found: <path>".
C8_MissingReport ==
    (parsed.parser # "none" /\ ~report.exists) =>
        /\ AllZero(parsed.metrics)
        /\ Len(parsed.errors) >= 1
        /\ parsed.errors[1] = <<NotFoundKind, report.path>>

\* The part of C8 the synthesis parser meets, and what the other two return
C8_AsImplemented ==
    (parsed.parser # "none" /\ ~report.exists) =>
        /\ parsed.parser = "stat" =>
             /\ AllZero(parsed.metrics)
             /\ parsed.errors = << <<"Synthesis report not found: ", report.path>> >>
        /\ parsed.parser = "sta" =>
             /\ parsed.metrics = TimingMetrics(0, 0, 0, 0, 0, 10)
             /\ parsed.errors = << <<"Timing report not found: ", report.path>> >>
        /\ parsed.parser = "drc" =>
             /\ AllZero(parsed.metrics)
             /\ parsed.errors = <<>>

\* the lines of the report that the slack pattern matches
SlackLines ==
    { i \in 1..Len(report.content) :
        /\ report.content[i].kind = "slack"
        /\ report.content[i].tag \in {"MET", "VIOLATED"} }

RECURSIVE SumOver(_, _)
\* the sum of the values of content over the lines in S
SumOver(content, S) ==
    IF S = {} THEN 0
    ELSE LET i == CHOOSE j \in S : TRUE
         IN  content[i].val + SumOver(content, S \ {i})

\* C9: parse_sta_report returns WNS, the minimum of the matched slack values
\* (0 when there are none), and TNS, the sum of the matched values that are
\* negative, so TNS <= 0; has_violations() is true exactly when WNS < 0 or
\* WHS < 0.
C9_TimingMetrics ==
    /\ (parsed.parser = "sta" /\ report.exists) =>
         /\ IF SlackLines = {} THEN parsed.metrics.wns = 0
            ELSE /\ \E i \in SlackLines : report.content[i].val = parsed.metrics.wns
                 /\ \A i \in SlackLines : parsed.metrics.wns <= report.content[i].val
         /\ parsed.metrics.tns
              = SumOver(report.content,
                        { i \in SlackLines : report.content[i].val < 0 })
         /\ parsed.metrics.tns <= 0
    /\ hv # NoCall => (hv[2] <=> (hv[1].wns < 0 \/ hv[1].whs < 0))

\* a report with a positive slack and two negative ones, one of them tagged
\* MET, parsed and asked for violations
C9_Witness ==
    /\ parsed.parser = "sta"
    /\ report.exists
    /\ \E i, j, k \in SlackLines :
         /\ i # j
         /\ report.content[i].val < 0 /\ report.content[i].tag = "MET"
         /\ report.content[j].val < 0
         /\ report.content[k].val > 0
    /\ parsed.metrics.tns < parsed.metrics.wns
    /\ hv # NoCall
    /\ hv[1] = parsed.metrics
    /\ hv[2]

\* the lines of the report with an explicit total
TotalLines == { i \in 1..Len(report.content) : report.content[i].kind = "total" }
ErrorLines == { i \in 1..Len(report.content) : report.content[i].kind = "error" }

\* the count C10 asks for: the explicit total when there is one (the first, if
\* several), else the number of [ERROR] occurrences
DrcExpected ==
    IF TotalLines # {} THEN report.content[Least(TotalLines)].val
    ELSE SumOver(report.content, ErrorLines)

\* C10: for an existing DRC report, drc_violations is the explicit total when
\* the line is present, whatever the number of [ERROR] lines, and else the
\* number of [ERROR] occurrences; the error list is the one entry
\* "Found <count> DRC violations" when the count is above 0 and is empty
\* otherwise.
C10_DrcCount ==
    (parsed.parser = "drc" /\ report.exists) =>
        /\ parsed.metrics.drc_violations = DrcExpected
        /\ DrcExpected > 0 =>
             parsed.errors = << <<"Found ", DrcExpected, " DRC violations">> >>
        /\ DrcExpected = 0 => parsed.errors = <<>>

\* no total line and three [ERROR] lines: 3 and "Found 3 DRC violations"
C10_Witness ==
    /\ parsed.parser = "drc"
    /\ report.exists
    /\ TotalLines = {}
    /\ Cardinality(ErrorLines) = 3
    /\ parsed.metrics.drc_violations = 3
    /\ parsed.errors = << <<"Found ", 3, " DRC violations">> >>

(***************************************************************************)
(* C11  The two placement rules are not exclusive.                         *)
(***************************************************************************)
OverflowSuggestion == <<"Placement overflow detected">>
CongestionSuggestion == <<"Routing congestion predicted">>

AnalyzedErrors == results[1].errors

Positions(sugg) == { i \in 1..Len(suggestions) : suggestions[i] = sugg }

\* one suggestion per error text that matches a rule, in the order of the
\* error texts, the overflow rule taking the text when both words occur
RECURSIVE FirstMatchPerText(_)
FirstMatchPerText(errors) ==
    IF errors = <<>> THEN <<>>
    ELSE LET text == Head(errors)
             rest == FirstMatchPerText(Tail(errors))
         IN  IF Contains(kw_overflow, Lower(text))
               THEN <<OverflowSuggestion>> \o rest
             ELSE IF Contains(kw_congestion, Lower(text))
               THEN <<CongestionSuggestion>> \o rest
             ELSE rest

\* C11: after analyze_placement on any placement StageResult, an error text
\* containing "overflow" (any case) puts the overflow suggestion in the
\* returned list, an error text containing "congestion" (any case) puts the
\* congestion suggestion in it, also when one text holds both words, and no
\* congestion suggestion stands before an overflow suggestion.
C11_RulesNotExclusive ==
    pc = "analyzed" =>
        /\ (\E k \in 1..Len(AnalyzedErrors) :
                ContainsLower(AnalyzedErrors[k], kw_overflow))
              => Positions(OverflowSuggestion) # {}
        /\ (\E k \in 1..Len(AnalyzedErrors) :
                ContainsLower(AnalyzedErrors[k], kw_congestion))
              => Positions(CongestionSuggestion) # {}
        /\ \A i \in Positions(OverflowSuggestion) :
              \A j \in Positions(CongestionSuggestion) : i < j

\* What analyze_placement returns instead: the first matching rule of each
\* error text, in the order of the error texts.
C11_AsImplemented ==
    pc = "analyzed" => suggestions = FirstMatchPerText(AnalyzedErrors)

\* a single error text with both words has been analyzed
C11_BothWordsAnalyzed ==
    /\ pc = "analyzed"
    /\ AnalyzedErrors = <<JoinWords(<<W_Overflows, W_CONGESTION>>)>>
    /\ suggestions = <<OverflowSuggestion>>
====
